---------------------------- MODULE Spec2Model ----------------------------
(***************************************************************************)
(* target-mssql: the JSON-schema to SQL type mapping of mssqlConnector and *)
(* the staged merge-upsert load of mssqlSink.process_batch.                *)
(*                                                                         *)
(* The database is the environment.  Every SQL statement is one step: it   *)
(* either takes its whole effect or raises and takes none.  A statement    *)
(* raises when the database must reject it (the object already exists, the *)
(* generated text is malformed, a constraint is violated) and may also     *)
(* raise for a reason the model does not see (a value that does not fit    *)
(* its column, a lost connection): that is the choice of dbOk below.       *)
(***************************************************************************)
EXTENDS Integers, Sequences, FiniteSets, Bags, TLC

VARIABLES
    \* ---- mssqlSink / batch -------------------------------------------
    schema,           \* self.schema["properties"]: sequence of [name, js]
    key_properties,   \* self.key_properties: sequence of property names
    records,          \* context["records"] of the batch being processed
    pc,               \* position inside process_batch
    failedAt,         \* the statement that raised in this batch, or "none"
    cause,            \* why it raised
    \* ---- database ----------------------------------------------------
    tgtExists,        \* the target table exists
    tgtCols,          \* its columns: sequence of [name, type, primary_key]
    tgtRows,          \* its rows: a bag of rows (column name -> value)
    tmpExists,        \* the staging table <target>_tmp exists
    tmpCols,
    tmpRows,
    identity_insert,  \* session setting IDENTITY_INSERT <target>_tmp
    \* ---- history (read by the properties only) -----------------------
    startRows,        \* tgtRows when the current batch started
    startCols,        \* tgtCols when the current batch started
    retryOf,          \* "MERGE" when this run repeats a batch whose MERGE raised
    provisioned,      \* prepare_table had returned, in an earlier run on this
                      \* table and schema, when the current run started
    \* ---- connector policy and the schema message ----------------------
    allow_column_add,    \* mssqlConnector.allow_column_add
    allow_column_alter,  \* mssqlConnector.allow_column_alter
    has_properties,      \* "properties" in self.schema
    \* ---- two sinks on one database ------------------------------------
    full_table_name,  \* per sink: self.full_table_name
    batchOf,          \* per sink: context["records"]
    spc,              \* per sink: position inside process_batch
    raisedBy,         \* per sink: the statement that raised and why
    tables,           \* the database: table name -> [exists, cols, rows]
    \* ---- type mapping on its own -------------------------------------
    jsonschema_type,  \* the argument of to_sql_type
    sql_type          \* its result

vars == <<schema, key_properties, records, pc, failedAt, cause,
          tgtExists, tgtCols, tgtRows, tmpExists, tmpCols, tmpRows,
          identity_insert, startRows, startCols, retryOf, provisioned,
          allow_column_add, allow_column_alter, has_properties,
          full_table_name, batchOf, spc, raisedBy, tables,
          jsonschema_type, sql_type>>

policyVars == <<allow_column_add, allow_column_alter, has_properties>>

batchVars == <<schema, key_properties, records, pc, failedAt, cause,
               tgtExists, tgtCols, tgtRows, tmpExists, tmpCols, tmpRows,
               identity_insert, startRows, startCols, retryOf, provisioned, policyVars>>

typeVars == <<jsonschema_type, sql_type>>

streamVars == <<full_table_name, batchOf, spc, raisedBy, tables>>

\* What no step of process_batch writes.
otherVars == <<policyVars, streamVars, typeVars>>

-----------------------------------------------------------------------------
(* Bounds *)

\* longest "type" list of a property schema
MaxTypeList == 2
\* longest "anyOf" list of a property schema
MaxAnyOf == 1
\* distinct values of the key column "id"
MaxId == 2
\* distinct non-null values of the column "name"
MaxName == 1
\* most records in one batch
MaxBatch == 2

-----------------------------------------------------------------------------
(* SQL types *)

WideLen == 2000
KeyLen == 255
NumericPrecision == 22
NumericScale == 16

\* A SQLAlchemy type object: its class and its constructor arguments.
DATETIME == [cls |-> "DATETIME", args |-> <<>>]
TIME == [cls |-> "TIME", args |-> <<>>]
DATE == [cls |-> "DATE", args |-> <<>>]
INTEGER == [cls |-> "INTEGER", args |-> <<>>]
NUMERIC(p, s) == [cls |-> "NUMERIC", args |-> <<p, s>>]
NVARCHAR(n) == [cls |-> "NVARCHAR", args |-> <<n>>]
VARCHAR(n) == [cls |-> "VARCHAR", args |-> <<n>>]
NoType == [cls |-> "unset", args |-> <<>>]

\* isinstance(t, sqlalchemy.types.VARCHAR).  sqlalchemy.types.NVARCHAR derives
\* from Unicode and VARCHAR from String: neither is a subclass of the other.
IsInstanceVARCHAR(t) == t.cls = "VARCHAR"

-----------------------------------------------------------------------------
(* JSON schema of one property *)

TypeTags == {"string", "integer", "number", "boolean", "object", "array", "null"}
Formats == {"absent", "date-time", "time", "date", "email"}
DateLike == {"date-time", "time", "date"}
\* "maxLength" of a property schema; 0 stands for no entry
MaxLengths == {0, 10}

\* A "type" entry: a single value (isList = FALSE, one tag), a list of values,
\* or no entry at all (has = FALSE).
NoTypeEntry == [has |-> FALSE, isList |-> FALSE, tags |-> <<>>]
SingleType(t) == [has |-> TRUE, isList |-> FALSE, tags |-> <<t>>]
ListType(ts) == [has |-> TRUE, isList |-> TRUE, tags |-> ts]

SeqsUpTo(S, n) == UNION {[1..k -> S] : k \in 0..n}

TypeEntries ==
    {NoTypeEntry} \cup {SingleType(t) : t \in TypeTags}
                  \cup {ListType(ts) : ts \in SeqsUpTo(TypeTags, MaxTypeList)}

\* One alternative of an "anyOf" list: itself a dict with "type" and "format".
Alternatives ==
    {[type |-> SingleType(t), format |-> f] :
        t \in {"string", "integer", "null"}, f \in {"absent", "date"}}

PropertySchemas ==
    [type : TypeEntries, format : Formats, maxLength : MaxLengths,
     anyOf : SeqsUpTo(Alternatives, MaxAnyOf)]

-----------------------------------------------------------------------------
(* mssqlConnector: type mapping *)

\* Python's `x in type_check` for a type tag x (a str) and a tuple of str.
TagIn(t, type_check) == t \in type_check

\* Python's `alt in type_check` for an anyOf alternative (a dict) and a tuple
\* of str: a dict never equals a str, so the test is false for every alternative.
AltIn(alt, type_check) == FALSE

\* A type check that reads a single-valued "type" only.
_jsonschema_type_check_single(js, type_check) ==
    /\ js.type.has
    /\ ~js.type.isList
    /\ TagIn(js.type.tags[1], type_check)

_jsonschema_type_check(js, type_check) ==
    \/ /\ js.type.has
       /\ IF js.type.isList
             THEN \E i \in 1..Len(js.type.tags) : TagIn(js.type.tags[i], type_check)
             ELSE TagIn(js.type.tags[1], type_check)
    \/ \E i \in 1..Len(js.anyOf) : AltIn(js.anyOf[i], type_check)

\* singer_sdk.helpers._typing._is_string_with_format: "string" in
\* d.get("type", []) and d.get("format") in {"date-time", "time", "date"}.
\* On a single tag `in` is Python's substring test; among TypeTags only
\* "string" contains "string".
_is_string_with_format(type, format) ==
    /\ type.has
    /\ \E i \in 1..Len(type.tags) : type.tags[i] = "string"
    /\ format \in DateLike

\* singer_sdk.helpers._typing.get_datelike_property_type: the property's own
\* format, else the format of the first date-like anyOf alternative, else
\* None ("absent").
get_datelike_property_type(js) ==
    IF _is_string_with_format(js.type, js.format) THEN js.format
    ELSE LET hits == {i \in 1..Len(js.anyOf) :
                        _is_string_with_format(js.anyOf[i].type, js.anyOf[i].format)}
         IN IF hits = {} THEN "absent"
            ELSE js.anyOf[CHOOSE i \in hits : \A j \in hits : i <= j].format

\* Python's `datelike_type in "time"`: a substring test on the str "time".
InTime(d) == d \in {"time", "tim", "ime", "ti", "im", "me", "t", "i", "m", "e", ""}

to_sql_type(js) ==
    IF _jsonschema_type_check(js, {"string"}) THEN
        LET datelike_type == get_datelike_property_type(js) IN
        IF datelike_type # "absent" /\ datelike_type = "date-time" THEN DATETIME
        ELSE IF datelike_type # "absent" /\ InTime(datelike_type) THEN TIME
        ELSE IF datelike_type # "absent" /\ datelike_type = "date" THEN DATE
        ELSE NVARCHAR(WideLen)
    ELSE IF _jsonschema_type_check(js, {"integer"}) THEN INTEGER
    ELSE IF _jsonschema_type_check(js, {"number"})
        THEN NUMERIC(NumericPrecision, NumericScale)
    ELSE IF _jsonschema_type_check(js, {"boolean"}) THEN VARCHAR(WideLen)
    ELSE IF _jsonschema_type_check(js, {"object"}) THEN NVARCHAR(WideLen)
    ELSE IF _jsonschema_type_check(js, {"array"}) THEN NVARCHAR(WideLen)
    ELSE NVARCHAR(WideLen)

-----------------------------------------------------------------------------
(* Schemas, records and rows *)

Range(q) == {q[i] : i \in 1..Len(q)}

NULL == 0

Plain(t) == [type |-> t, format |-> "absent", maxLength |-> 0, anyOf |-> <<>>]

\* The stream loaded by the batch model: an integer "id", a nullable string "name".
StreamSchema ==
    << [name |-> "id", js |-> Plain(SingleType("integer"))],
       [name |-> "name", js |-> Plain(ListType(<<"string", "null">>))] >>

PropertyNames(sch) == {sch[i].name : i \in 1..Len(sch)}

\* The key_properties a stream may declare.
KeyChoices == {<<>>, <<"id">>, <<"id", "name">>}

\* A record maps property names to values.  Every record of the stream carries
\* its "id"; "name" is optional, and a missing name is a missing dict key.
ValuesOf(n) == IF n = "id" THEN 1..MaxId ELSE 1..MaxName
RecordsOver(D) == {r \in [D -> 1..(MaxId + MaxName)] : \A n \in D : r[n] \in ValuesOf(n)}
Records == RecordsOver({"id"}) \cup RecordsOver({"id", "name"})

\* The batches handed to process_batch: the SDK drains a sink only when it
\* holds at least one record.
Batches == SeqsUpTo(Records, MaxBatch) \ {<<>>}

\* dict.get(name): the value, or None
Get(record, n) == IF n \in DOMAIN record THEN record[n] ELSE NULL

RECURSIVE SeqToBag(_)
SeqToBag(q) == IF q = <<>> THEN EmptyBag ELSE SetToBag({Head(q)}) (+) SeqToBag(Tail(q))

RECURSIVE SumOver(_, _)
SumOver(S, B) ==
    IF S = {} THEN 0
    ELSE LET x == CHOOSE y \in S : TRUE IN CopiesIn(x, B) + SumOver(S \ {x}, B)

-----------------------------------------------------------------------------
(* mssqlConnector: provisioning *)

\* The columns create_empty_table hands to sqlalchemy.Table: one per property, in
\* the order of the property map.  A Column is nullable unless primary_key.
create_empty_table(sch, primary_keys) ==
    [i \in 1..Len(sch) |->
        LET is_primary_key == sch[i].name \in Range(primary_keys)
            columntype == to_sql_type(sch[i].js)
        IN [name |-> sch[i].name,
            type |-> IF IsInstanceVARCHAR(columntype) /\ is_primary_key
                       THEN VARCHAR(KeyLen) ELSE columntype,
            primary_key |-> is_primary_key,
            nullable |-> ~is_primary_key]]

IsStringLike(t) == t.cls \in {"VARCHAR", "NVARCHAR"}

\* getattr(sql_type, "length", 0): only the string types carry a length.
LengthOf(t) == IF IsStringLike(t) THEN t.args[1] ELSE 0

\* SQLConnector._sort_types of the SDK ranks a type by its python_type: str
\* first, then datetime, then int; Decimal, date and time rank last.
TypeRank(t) ==
    CASE IsStringLike(t) -> 3
      [] t.cls = "DATETIME" -> 2
      [] t.cls = "INTEGER" -> 1
      [] OTHER -> 0

\* The sort key (rank, length) of a sorts before that of b; the sort is stable.
SortsBefore(a, b) ==
    \/ TypeRank(a) > TypeRank(b)
    \/ TypeRank(a) = TypeRank(b) /\ LengthOf(a) > LengthOf(b)

\* A reconciliation that settles on the desired type whatever the column holds.
take_new_type(current_type, new_type) == new_type

\* SQLConnector.merge_sql_types([current, new]) of the SDK: the two types are
\* sorted, and the first that is a string type at least as long as the current
\* type, or is the current type itself, is the answer.  NoType stands for the
\* ValueError raised when neither is.
merge_sql_types(current_type, new_type) ==
    LET cur_len == LengthOf(current_type)
        sql_types == IF SortsBefore(new_type, current_type)
                       THEN <<new_type, current_type>>
                       ELSE <<current_type, new_type>>
        Fits(opt) == IF IsStringLike(opt)
                       THEN LengthOf(opt) = 0 \/ LengthOf(opt) >= cur_len
                       ELSE opt = current_type
    IN IF Fits(sql_types[1]) THEN sql_types[1]
       ELSE IF Fits(sql_types[2]) THEN sql_types[2]
       ELSE NoType

\* _adapt_column_type reaches its ALTER COLUMN only past the test on the two
\* types themselves.
TypeDiffers(current_type, new_type) == new_type # current_type

\* _adapt_column_type reaches its policy check and its ALTER COLUMN: the
\* desired type is not the current one, and nor is the merged type.
AlterNeeded(current_type, new_type) ==
    /\ new_type # current_type
    /\ merge_sql_types(current_type, new_type) # current_type

\* The type _adapt_column_type leaves the column with when its ALTER succeeds
\* (the current type when it issues none).
_adapt_column_type(current_type, new_type) ==
    IF new_type = current_type THEN current_type
    ELSE LET compatible_sql_type == merge_sql_types(current_type, new_type)
         IN IF compatible_sql_type = current_type THEN current_type
            ELSE compatible_sql_type

ColumnIndex(cols, n) == {i \in 1..Len(cols) : cols[i].name = n}

Returned(cols) == [cols |-> cols, raised |-> "none", why |-> "none"]
Stopped(cols, stmt, why) == [cols |-> cols, raised |-> stmt, why |-> why]

\* prepare_table on an existing table: prepare_column for each property in
\* turn, _create_empty_column for an absent column and _adapt_column_type for
\* a present one.  Each ALTER TABLE is a statement of its own: the columns
\* changed before a raise stay changed.  rejectAt is the property whose
\* statement the database rejects (0: none).
RECURSIVE prepare_columns(_, _, _, _)
prepare_columns(cols, sch, i, rejectAt) ==
    IF i > Len(sch) THEN Returned(cols)
    ELSE LET new_type == to_sql_type(sch[i].js)
             at == ColumnIndex(cols, sch[i].name)
         IN IF at = {}
              THEN IF ~allow_column_add THEN Stopped(cols, "ALTER_ADD", "policy")
                   ELSE IF rejectAt = i THEN Stopped(cols, "ALTER_ADD", "rejected")
                   ELSE prepare_columns(
                          Append(cols, [name |-> sch[i].name, type |-> new_type,
                                        primary_key |-> FALSE, nullable |-> TRUE]),
                          sch, i + 1, rejectAt)
              ELSE LET j == CHOOSE k \in at : TRUE
                   IN IF ~AlterNeeded(cols[j].type, new_type)
                        THEN prepare_columns(cols, sch, i + 1, rejectAt)
                      ELSE IF ~allow_column_alter
                        THEN Stopped(cols, "ALTER_COLUMN", "policy")
                      ELSE IF rejectAt = i
                        THEN Stopped(cols, "ALTER_COLUMN", "rejected")
                      ELSE prepare_columns(
                             [cols EXCEPT ![j].type =
                                 _adapt_column_type(cols[j].type, new_type)],
                             sch, i + 1, rejectAt)

\* A SELECT INTO that lists the key columns only.
SelectTop0OfKeys(cols) ==
    LET keys == SelectSeq(cols, LAMBDA c : c.primary_key)
    IN [i \in 1..Len(keys) |-> [keys[i] EXCEPT !.primary_key = FALSE]]

\* SELECT TOP 0 * INTO: the columns of the source with their types and
\* nullability, without the key.
SelectTop0(cols) == [i \in 1..Len(cols) |-> [cols[i] EXCEPT !.primary_key = FALSE]]

-----------------------------------------------------------------------------
(* mssqlSink: staging insert and merge *)

\* Rows that carry every key of the record next to the columns.
insert_records_of_all_keys(recs, sch) ==
    [i \in 1..Len(recs) |->
        [n \in PropertyNames(sch) \cup DOMAIN recs[i] |-> Get(recs[i], n)]]

\* bulk_insert_records: one insert_record per record, one entry per column of
\* column_representation(schema), holding record.get(column.name).
insert_records(recs, sch) ==
    [i \in 1..Len(recs) |-> [n \in PropertyNames(sch) |-> Get(recs[i], n)]]

\* A row the staging table cannot hold: NULL in a column SELECT INTO copied as
\* NOT NULL.
ViolatesNotNull(row, cols) ==
    \E i \in 1..Len(cols) : ~cols[i].nullable /\ row[cols[i].name] = NULL

\* The column lists of the MERGE text.
join_condition(join_keys) == join_keys
\* An UPDATE SET list that keeps the key columns instead of leaving them out.
update_set_of_keys(sch, join_keys) ==
    SelectSeq([i \in 1..Len(sch) |-> sch[i].name], LAMBDA n : n \in Range(join_keys))

update_set(sch, join_keys) ==
    SelectSeq([i \in 1..Len(sch) |-> sch[i].name], LAMBDA n : n \notin Range(join_keys))
insert_columns(sch) == [i \in 1..Len(sch) |-> sch[i].name]

\* The database parses the MERGE text only when the search condition after ON,
\* the assignment list after UPDATE SET and the INSERT column list are not empty.
MergeTextParses(sch, join_keys) ==
    /\ join_condition(join_keys) # <<>>
    /\ update_set(sch, join_keys) # <<>>
    /\ insert_columns(sch) # <<>>

\* temp.k = target.k for every join key (NULL equals nothing).
Matches(s, t, join_keys) ==
    \A i \in 1..Len(join_keys) :
        s[join_keys[i]] # NULL /\ s[join_keys[i]] = t[join_keys[i]]

MatchesOf(t, staged, join_keys) == {s \in BagToSet(staged) : Matches(s, t, join_keys)}

\* WHEN MATCHED THEN UPDATE SET target.c = temp.c for the non-key properties.
UpdatedRow(t, staged, sch, join_keys) ==
    LET m == MatchesOf(t, staged, join_keys)
    IN IF m = {} THEN t
       ELSE LET s == CHOOSE x \in m : TRUE
            IN [c \in DOMAIN t |->
                  IF c \in Range(update_set(sch, join_keys)) THEN s[c] ELSE t[c]]

\* WHEN NOT MATCHED THEN INSERT: the staged rows that match no target row.
Unmatched(target, staged, join_keys) ==
    LET keep == {s \in BagToSet(staged) :
                    \A t \in BagToSet(target) : ~Matches(s, t, join_keys)}
    IN [s \in keep |-> CopiesIn(s, staged)]

\* A MERGE without its WHEN MATCHED clause: the unmatched rows are inserted.
MergedRowsInsertOnly(target, staged, sch, join_keys) ==
    target (+) Unmatched(target, staged, join_keys)

\* The target's rows after the WHEN MATCHED clause, with multiplicities.
UpdatedRows(target, staged, sch, join_keys) ==
    LET img == {UpdatedRow(t, staged, sch, join_keys) : t \in BagToSet(target)}
    IN [r \in img |->
          SumOver({t \in BagToSet(target) :
                      UpdatedRow(t, staged, sch, join_keys) = r}, target)]

\* The target's rows after the MERGE statement.
MergedRows(target, staged, sch, join_keys) ==
    UpdatedRows(target, staged, sch, join_keys) (+) Unmatched(target, staged, join_keys)

PrimaryKey(cols) == {cols[i].name : i \in {j \in 1..Len(cols) : cols[j].primary_key}}

\* The database rejects a MERGE that would update one target row from two staged
\* rows, or that would leave two rows with one primary key.
MergeRejected(target, staged, sch, join_keys, cols) ==
    \/ \E t \in BagToSet(target) :
          SumOver(MatchesOf(t, staged, join_keys), staged) > 1
    \/ /\ PrimaryKey(cols) # {}
       /\ LET rows == MergedRows(target, staged, sch, join_keys)
          IN \/ \E r \in BagToSet(rows) : CopiesIn(r, rows) > 1
             \/ \E r1, r2 \in BagToSet(rows) :
                   r1 # r2 /\ \A k \in PrimaryKey(cols) : r1[k] = r2[k]
             \/ \E r \in BagToSet(rows) : \E k \in PrimaryKey(cols) : r[k] = NULL

-----------------------------------------------------------------------------
(* mssqlSink.process_batch, one SQL statement a step *)

\* The statement raised and process_batch starts over.
RaiseAndStartOver(stmt, why) ==
    /\ pc' = "prepare_table"
    /\ failedAt' = stmt
    /\ cause' = why

\* The statement raised: the exception leaves process_batch.
Raise(stmt, why) ==
    /\ pc' = "Failed"
    /\ failedAt' = stmt
    /\ cause' = why

Goto(next) ==
    /\ pc' = next
    /\ UNCHANGED <<failedAt, cause>>

\* The exception that left process_batch.  The two policy checks raise
\* NotImplementedError; create_empty_table turns the KeyError of a missing
\* property map into a RuntimeError, prepare_table on an existing table does
\* not; the try/except around ALTER TABLE ADD and ALTER COLUMN turns the
\* driver's error into a RuntimeError; no other statement is inside a try.
ExceptionRaised ==
    IF pc # "Failed" THEN "none"
    ELSE CASE cause = "policy" -> "NotImplementedError"
           [] cause = "no_properties" /\ failedAt = "create_empty_table" -> "RuntimeError"
           [] cause = "no_properties" -> "KeyError"
           [] failedAt \in {"ALTER_ADD", "ALTER_COLUMN"} -> "RuntimeError"
           [] OTHER -> "DBAPIError"

\* The places a run can fail before prepare_table returns: the two raises on
\* a schema without a property map, and the three DDL statements.
ProvisioningStatements ==
    {"create_empty_table", "prepare_table", "CREATE_TABLE", "ALTER_ADD", "ALTER_COLUMN"}

\* prepare_table has returned in the current run of process_batch.
ProvisioningReturned ==
    /\ pc \notin {"Idle", "prepare_table"}
    /\ pc = "Failed" => failedAt \notin ProvisioningStatements

\* The sink is drained: process_batch is called on the records it holds.
StartBatch ==
    /\ pc = "Idle"
    /\ \E batch \in Batches : records' = batch
    /\ pc' = "prepare_table"
    /\ startRows' = tgtRows
    /\ startCols' = tgtCols
    /\ UNCHANGED <<schema, key_properties, failedAt, cause, tgtExists, tgtCols,
                   tgtRows, tmpExists, tmpCols, tmpRows, identity_insert, retryOf, provisioned>>
    /\ UNCHANGED otherVars

\* The batch was rejected and is not acknowledged: the stream resumes with the
\* same batch, handed to a fresh process_batch call.
RetryBatch ==
    /\ pc = "Failed"
    /\ retryOf' = IF failedAt = "MERGE" THEN "MERGE" ELSE "none"
    /\ pc' = "prepare_table"
    /\ failedAt' = "none"
    /\ cause' = "none"
    /\ startRows' = tgtRows
    /\ startCols' = tgtCols
    /\ provisioned' = (provisioned \/ ProvisioningReturned)
    /\ UNCHANGED <<schema, key_properties, records, tgtExists, tgtCols, tgtRows,
                   tmpExists, tmpCols, tmpRows, identity_insert>>
    /\ UNCHANGED otherVars

\* process_batch returned: the sink forgets the batch and waits for the next.
Drained ==
    /\ pc = "Done"
    /\ pc' = "Idle"
    /\ records' = <<>>
    /\ startRows' = EmptyBag
    /\ startCols' = <<>>
    /\ retryOf' = "none"
    /\ provisioned' = TRUE
    /\ UNCHANGED <<schema, key_properties, failedAt, cause, tgtExists, tgtCols,
                   tgtRows, tmpExists, tmpCols, tmpRows, identity_insert>>
    /\ UNCHANGED otherVars

\* connector.prepare_table: create the table, or add and alter its columns.
\* Without a property map create_empty_table raises its RuntimeError and
\* prepare_table, on an existing table, the KeyError of schema["properties"].
PrepareTable ==
    /\ pc = "prepare_table"
    /\ IF ~has_properties
         THEN /\ Raise(IF tgtExists THEN "prepare_table" ELSE "create_empty_table",
                       "no_properties")
              /\ UNCHANGED <<tgtExists, tgtCols, tgtRows>>
       ELSE IF ~tgtExists
         THEN \E dbOk \in BOOLEAN :
                IF dbOk
                  THEN /\ tgtExists' = TRUE
                       /\ tgtCols' = create_empty_table(schema, key_properties)
                       /\ tgtRows' = EmptyBag
                       /\ Goto("create_temp")
                  ELSE /\ Raise("CREATE_TABLE", "rejected")
                       /\ UNCHANGED <<tgtExists, tgtCols, tgtRows>>
       ELSE \E rejectAt \in 0..Len(schema) :
              LET done == prepare_columns(tgtCols, schema, 1, rejectAt)
              IN /\ tgtCols' = done.cols
                 /\ UNCHANGED <<tgtExists, tgtRows>>
                 /\ IF done.raised = "none"
                      THEN Goto("create_temp")
                      ELSE Raise(done.raised, done.why)
    /\ UNCHANGED <<schema, key_properties, records, tmpExists, tmpCols, tmpRows,
                   identity_insert, startRows, startCols, retryOf, provisioned>>
    /\ UNCHANGED otherVars

\* connector.create_temp_table_from_table: SELECT TOP 0 * INTO <t>_tmp FROM <t>.
\* The statement creates <t>_tmp, with the columns and their nullability but
\* without the key, and is rejected when <t>_tmp exists.
CreateTempTable ==
    /\ pc = "create_temp"
    /\ \E dbOk \in BOOLEAN :
          IF tmpExists
            THEN /\ Raise("SELECT_INTO", "exists")
                 /\ UNCHANGED <<tmpExists, tmpCols, tmpRows>>
          ELSE IF ~dbOk
            THEN /\ Raise("SELECT_INTO", "rejected")
                 /\ UNCHANGED <<tmpExists, tmpCols, tmpRows>>
          ELSE /\ tmpExists' = TRUE
               /\ tmpCols' = SelectTop0(tgtCols)
               /\ tmpRows' = EmptyBag
               /\ Goto("identity_on")
    /\ UNCHANGED <<schema, key_properties, records, tgtExists, tgtCols, tgtRows,
                   identity_insert, startRows, startCols, retryOf, provisioned>>
    /\ UNCHANGED otherVars

\* bulk_insert_records: primary_key_present is always True, so
\* SET IDENTITY_INSERT <t>_tmp ON is always executed.
IdentityInsertOn ==
    /\ pc = "identity_on"
    /\ \E dbOk \in BOOLEAN :
          IF dbOk
            THEN identity_insert' = "ON" /\ Goto("insert")
            ELSE Raise("IDENTITY_ON", "rejected") /\ UNCHANGED identity_insert
    /\ UNCHANGED <<schema, key_properties, records, tgtExists, tgtCols, tgtRows,
                   tmpExists, tmpCols, tmpRows, startRows, startCols, retryOf, provisioned>>
    /\ UNCHANGED otherVars

\* The INSERT raised and swallowed: the load goes on with nothing staged.
InsertRaisesAndGoesOn(why) ==
    /\ Goto("identity_off")
    /\ UNCHANGED <<tmpRows, identity_insert>>

\* The INSERT raises: nothing is staged, and the exception leaves
\* bulk_insert_records and process_batch at once.
InsertRaises(why) ==
    /\ Raise("INSERT", why)
    /\ UNCHANGED <<tmpRows, identity_insert>>

\* bulk_insert_records: connection.execute(insert_sql, insert_records)
BulkInsert ==
    /\ pc = "insert"
    /\ LET rows == insert_records(records, schema)
       IN \E dbOk \in BOOLEAN :
             IF \E i \in 1..Len(rows) : ViolatesNotNull(rows[i], tmpCols)
               THEN InsertRaises("constraint")
             ELSE IF ~dbOk
               THEN InsertRaises("rejected")
             ELSE /\ tmpRows' = tmpRows (+) SeqToBag(rows)
                  /\ Goto("identity_off")
                  /\ UNCHANGED identity_insert
    /\ UNCHANGED <<schema, key_properties, records, tgtExists, tgtCols, tgtRows,
                   tmpExists, tmpCols, startRows, startCols, retryOf, provisioned>>
    /\ UNCHANGED otherVars

\* bulk_insert_records: SET IDENTITY_INSERT <t>_tmp OFF
IdentityInsertOff ==
    /\ pc = "identity_off"
    /\ \E dbOk \in BOOLEAN :
          IF dbOk
            THEN identity_insert' = "OFF" /\ Goto("merge")
            ELSE Raise("IDENTITY_OFF", "rejected") /\ UNCHANGED identity_insert
    /\ UNCHANGED <<schema, key_properties, records, tgtExists, tgtCols, tgtRows,
                   tmpExists, tmpCols, tmpRows, startRows, startCols, retryOf, provisioned>>
    /\ UNCHANGED otherVars

\* DROP TABLE <t>_tmp takes effect.
TempTableDropped ==
    /\ tmpExists' = FALSE
    /\ tmpCols' = <<>>
    /\ tmpRows' = EmptyBag

\* The MERGE raised, and the staging table is dropped on the way out.
MergeRaisesAndDrops(why) ==
    /\ Raise("MERGE", why)
    /\ UNCHANGED tgtRows
    /\ TempTableDropped

\* The MERGE raises: the statement changes nothing, and the exception leaves
\* merge_upsert_from_table before its DROP TABLE and COMMIT.
MergeRaises(why) ==
    /\ Raise("MERGE", why)
    /\ UNCHANGED <<tgtRows, tmpExists, tmpCols, tmpRows>>

\* merge_upsert_from_table: connection.execute(merge_sql)
Merge ==
    /\ pc = "merge"
    /\ \E dbOk \in BOOLEAN :
          IF ~MergeTextParses(schema, key_properties)
            THEN MergeRaises("syntax")
          ELSE IF MergeRejected(tgtRows, tmpRows, schema, key_properties, tgtCols)
            THEN MergeRaises("constraint")
          ELSE IF ~dbOk
            THEN MergeRaises("rejected")
          ELSE /\ tgtRows' = MergedRows(tgtRows, tmpRows, schema, key_properties)
               /\ Goto("drop")
               /\ UNCHANGED <<tmpExists, tmpCols, tmpRows>>
    /\ UNCHANGED <<schema, key_properties, records, tgtExists, tgtCols,
                   identity_insert, startRows, startCols, retryOf, provisioned>>
    /\ UNCHANGED otherVars

\* merge_upsert_from_table without its DROP TABLE statement.
DropSkipped ==
    /\ Goto("commit")
    /\ UNCHANGED <<tmpExists, tmpCols, tmpRows>>

\* connection.execute("DROP TABLE <t>_tmp") returns.
DropExecuted ==
    /\ TempTableDropped
    /\ Goto("commit")

\* The DROP TABLE raised and merge_upsert_from_table goes on to its COMMIT.
DropRaisesAndCommits(why) ==
    /\ Goto("commit")
    /\ UNCHANGED <<tmpExists, tmpCols, tmpRows>>

\* The DROP TABLE raises: the staging table stays, and the exception leaves
\* merge_upsert_from_table before its COMMIT.
DropRaises(why) ==
    /\ Raise("DROP", why)
    /\ UNCHANGED <<tmpExists, tmpCols, tmpRows>>

\* merge_upsert_from_table: DROP TABLE <t>_tmp
DropTempTable ==
    /\ pc = "drop"
    /\ \E dbOk \in BOOLEAN :
          IF dbOk
            THEN DropExecuted
            ELSE DropRaises("rejected")
    /\ UNCHANGED <<schema, key_properties, records, tgtExists, tgtCols, tgtRows,
                   identity_insert, startRows, startCols, retryOf, provisioned>>
    /\ UNCHANGED otherVars

\* merge_upsert_from_table: COMMIT
Commit ==
    /\ pc = "commit"
    /\ \E dbOk \in BOOLEAN :
          IF dbOk THEN Goto("Done") ELSE Raise("COMMIT", "rejected")
    /\ UNCHANGED <<schema, key_properties, records, tgtExists, tgtCols, tgtRows,
                   tmpExists, tmpCols, tmpRows, identity_insert, startRows, startCols, retryOf, provisioned>>
    /\ UNCHANGED otherVars

\* The states of a batch the design names.
Phase ==
    CASE pc = "Idle" -> "Idle"
      [] pc = "prepare_table" -> "Provisioning"
      [] pc \in {"create_temp", "identity_on", "insert", "identity_off"} -> "Staging"
      [] pc \in {"merge", "drop", "commit"} -> "Merging"
      [] pc = "Done" -> "Done"
      [] pc = "Failed" -> "Failed"

\* The two-sink model is empty: no sink, no table.
NoStreams ==
    /\ full_table_name = <<>>
    /\ batchOf = <<>>
    /\ spc = <<>>
    /\ raisedBy = <<>>
    /\ tables = <<>>

\* A sink before its first batch, on a database without the tables.
SinkInit ==
    /\ NoStreams
    /\ schema = StreamSchema
    /\ records = <<>>
    /\ pc = "Idle"
    /\ failedAt = "none"
    /\ cause = "none"
    /\ tgtExists = FALSE
    /\ tgtCols = <<>>
    /\ tgtRows = EmptyBag
    /\ tmpExists = FALSE
    /\ tmpCols = <<>>
    /\ tmpRows = EmptyBag
    /\ identity_insert = "OFF"
    /\ startRows = EmptyBag
    /\ startCols = <<>>
    /\ retryOf = "none"
    /\ provisioned = FALSE
    /\ allow_column_add = TRUE
    /\ allow_column_alter = TRUE
    /\ has_properties = TRUE

Init ==
    /\ SinkInit
    /\ key_properties \in KeyChoices
    /\ jsonschema_type = Plain(NoTypeEntry)
    /\ sql_type = NoType

Next ==
    \/ StartBatch
    \/ RetryBatch
    \/ Drained
    \/ PrepareTable
    \/ CreateTempTable
    \/ IdentityInsertOn
    \/ BulkInsert
    \/ IdentityInsertOff
    \/ Merge
    \/ DropTempTable
    \/ Commit

Spec == Init /\ [][Next]_vars

-----------------------------------------------------------------------------
(* to_sql_type on its own: every property schema, mapped once *)

MapType ==
    /\ sql_type = NoType
    /\ sql_type' = to_sql_type(jsonschema_type)
    /\ UNCHANGED jsonschema_type
    /\ UNCHANGED <<batchVars, streamVars>>

TypeInit ==
    /\ SinkInit
    /\ key_properties = <<>>
    /\ jsonschema_type \in PropertySchemas
    /\ sql_type = NoType

SpecType == TypeInit /\ [][MapType]_vars

-----------------------------------------------------------------------------
(* process_batch on a table that is already there: one batch of one record,
   loaded under every schema, key, policy and live table below *)

\* The property schemas of the streams provisioned.
ProvTypes ==
    {Plain(SingleType("integer")), Plain(ListType(<<"string", "null">>)),
     Plain(SingleType("boolean")), Plain(SingleType("number"))}

\* A stream has the property "id", and may have "name".
ProvSchemas ==
    {<< [name |-> "id", js |-> a] >> : a \in ProvTypes}
        \cup {<< [name |-> "id", js |-> a], [name |-> "name", js |-> b] >> :
                 a \in ProvTypes, b \in ProvTypes}

ProvKeys == {<<>>, <<"id">>}

\* The column types an earlier provisioning can have left.
LiveTypes ==
    {INTEGER, NUMERIC(NumericPrecision, NumericScale), NVARCHAR(WideLen),
     VARCHAR(WideLen), VARCHAR(KeyLen)}

LiveColumn(n, t, keys) ==
    [name |-> n, type |-> t, primary_key |-> n \in Range(keys),
     nullable |-> n \notin Range(keys)]

\* The target table as an earlier load left it: the column "id", and
\* "name" when the stream had it then.
LiveTables(keys) ==
    {<< LiveColumn("id", a, keys) >> : a \in LiveTypes}
        \cup {<< LiveColumn("id", a, keys), LiveColumn("name", b, keys) >> :
                 a \in LiveTypes, b \in LiveTypes}

ProvInit ==
    /\ has_properties \in BOOLEAN
    /\ schema \in IF has_properties THEN ProvSchemas ELSE {<<>>}
    /\ key_properties \in ProvKeys
    /\ allow_column_add \in BOOLEAN
    /\ allow_column_alter \in BOOLEAN
    /\ tgtExists \in BOOLEAN
    /\ tgtCols \in IF tgtExists THEN LiveTables(key_properties) ELSE {<<>>}
    /\ tgtRows = EmptyBag
    /\ records = << [id |-> 1] >>
    /\ pc = "prepare_table"
    /\ failedAt = "none"
    /\ cause = "none"
    /\ tmpExists = FALSE
    /\ tmpCols = <<>>
    /\ tmpRows = EmptyBag
    /\ identity_insert = "OFF"
    /\ startRows = EmptyBag
    /\ startCols = tgtCols
    /\ retryOf = "none"
    /\ provisioned = FALSE
    /\ NoStreams
    /\ jsonschema_type = Plain(NoTypeEntry)
    /\ sql_type = NoType

ProvNext ==
    \/ PrepareTable
    \/ CreateTempTable
    \/ IdentityInsertOn
    \/ BulkInsert
    \/ IdentityInsertOff
    \/ Merge
    \/ DropTempTable
    \/ Commit
    \/ RetryBatch

SpecProv == ProvInit /\ [][ProvNext]_vars

-----------------------------------------------------------------------------
(* Two sinks, one per stream, each running process_batch once on the same
   database.  Every statement is a step of its own and takes effect at once;
   the database rejects a statement only for what the tables are. *)

Streams == {1, 2}

\* f"{from_table_name}_tmp"
Staging(name) == name \o "_tmp"

\* The second stream's table is unrelated to the first's, or named as the
\* first's staging table is.
SecondNames == {"u", Staging("t")}

TableNames ==
    LET targets == {"t"} \cup SecondNames
    IN targets \cup {Staging(n) : n \in targets}

NoTable == [exists |-> FALSE, cols |-> <<>>, rows |-> EmptyBag]

S_Goto(s, next) ==
    /\ spc' = [spc EXCEPT ![s] = next]
    /\ UNCHANGED raisedBy

S_Raise(s, stmt, why) ==
    /\ spc' = [spc EXCEPT ![s] = "Failed"]
    /\ raisedBy' = [raisedBy EXCEPT ![s] = <<stmt, why>>]
    /\ UNCHANGED tables

S_Frame == UNCHANGED <<full_table_name, batchOf, batchVars, typeVars>>

\* connector.prepare_table(full_table_name, schema, primary_keys)
S_PrepareTable(s) ==
    /\ spc[s] = "prepare_table"
    /\ LET t == full_table_name[s]
       IN tables' = [tables EXCEPT ![t] =
             IF tables[t].exists
               THEN [@ EXCEPT !.cols = prepare_columns(@, schema, 1, 0).cols]
               ELSE [exists |-> TRUE,
                     cols |-> create_empty_table(schema, key_properties),
                     rows |-> EmptyBag]]
    /\ S_Goto(s, "create_temp")
    /\ S_Frame

\* connector.create_temp_table_from_table(full_table_name)
S_CreateTempTable(s) ==
    /\ spc[s] = "create_temp"
    /\ LET t == full_table_name[s]
           tmp == Staging(t)
       IN IF ~tables[t].exists THEN S_Raise(s, "SELECT_INTO", "missing")
          ELSE IF tables[tmp].exists THEN S_Raise(s, "SELECT_INTO", "exists")
          ELSE /\ tables' = [tables EXCEPT ![tmp] =
                               [exists |-> TRUE, cols |-> SelectTop0(tables[t].cols),
                                rows |-> EmptyBag]]
               /\ S_Goto(s, "identity_on")
    /\ S_Frame

\* bulk_insert_records: SET IDENTITY_INSERT <t>_tmp ON
S_IdentityInsertOn(s) ==
    /\ spc[s] = "identity_on"
    /\ IF ~tables[Staging(full_table_name[s])].exists
         THEN S_Raise(s, "IDENTITY_ON", "missing")
         ELSE S_Goto(s, "insert") /\ UNCHANGED tables
    /\ S_Frame

\* bulk_insert_records: connection.execute(insert_sql, insert_records)
S_BulkInsert(s) ==
    /\ spc[s] = "insert"
    /\ LET tmp == Staging(full_table_name[s])
           rows == insert_records(batchOf[s], schema)
       IN IF ~tables[tmp].exists THEN S_Raise(s, "INSERT", "missing")
          ELSE IF \E i \in 1..Len(rows) : ViolatesNotNull(rows[i], tables[tmp].cols)
            THEN S_Raise(s, "INSERT", "constraint")
          ELSE /\ tables' = [tables EXCEPT ![tmp].rows = @ (+) SeqToBag(rows)]
               /\ S_Goto(s, "identity_off")
    /\ S_Frame

\* bulk_insert_records: SET IDENTITY_INSERT <t>_tmp OFF
S_IdentityInsertOff(s) ==
    /\ spc[s] = "identity_off"
    /\ IF ~tables[Staging(full_table_name[s])].exists
         THEN S_Raise(s, "IDENTITY_OFF", "missing")
         ELSE S_Goto(s, "merge") /\ UNCHANGED tables
    /\ S_Frame

\* merge_upsert_from_table: MERGE INTO <t> USING <t>_tmp
S_Merge(s) ==
    /\ spc[s] = "merge"
    /\ LET t == full_table_name[s]
           tmp == Staging(t)
       IN IF ~tables[t].exists \/ ~tables[tmp].exists
            THEN S_Raise(s, "MERGE", "missing")
          ELSE IF ~MergeTextParses(schema, key_properties)
            THEN S_Raise(s, "MERGE", "syntax")
          ELSE IF MergeRejected(tables[t].rows, tables[tmp].rows, schema,
                                key_properties, tables[t].cols)
            THEN S_Raise(s, "MERGE", "constraint")
          ELSE /\ tables' = [tables EXCEPT ![t].rows =
                               MergedRows(@, tables[tmp].rows, schema, key_properties)]
               /\ S_Goto(s, "drop")
    /\ S_Frame

\* merge_upsert_from_table: DROP TABLE <t>_tmp
S_DropTempTable(s) ==
    /\ spc[s] = "drop"
    /\ LET tmp == Staging(full_table_name[s])
       IN IF ~tables[tmp].exists THEN S_Raise(s, "DROP", "missing")
          ELSE /\ tables' = [tables EXCEPT ![tmp] = NoTable]
               /\ S_Goto(s, "commit")
    /\ S_Frame

\* merge_upsert_from_table: COMMIT
S_Commit(s) ==
    /\ spc[s] = "commit"
    /\ S_Goto(s, "Done")
    /\ UNCHANGED tables
    /\ S_Frame

\* One record a batch, on an empty database; the streams share the schema
\* and are keyed by "id".
StreamsInit ==
    /\ schema = StreamSchema
    /\ key_properties = <<"id">>
    /\ records = <<>>
    /\ pc = "Idle"
    /\ failedAt = "none"
    /\ cause = "none"
    /\ tgtExists = FALSE
    /\ tgtCols = <<>>
    /\ tgtRows = EmptyBag
    /\ tmpExists = FALSE
    /\ tmpCols = <<>>
    /\ tmpRows = EmptyBag
    /\ identity_insert = "OFF"
    /\ startRows = EmptyBag
    /\ startCols = <<>>
    /\ retryOf = "none"
    /\ provisioned = FALSE
    /\ allow_column_add = TRUE
    /\ allow_column_alter = TRUE
    /\ has_properties = TRUE
    /\ \E n \in SecondNames : full_table_name = [s \in Streams |-> IF s = 1 THEN "t" ELSE n]
    /\ batchOf \in [Streams -> {<<r>> : r \in Records}]
    /\ spc = [s \in Streams |-> "prepare_table"]
    /\ raisedBy = [s \in Streams |-> <<"none", "none">>]
    /\ tables = [n \in TableNames |-> NoTable]
    /\ jsonschema_type = Plain(NoTypeEntry)
    /\ sql_type = NoType

StreamsNext ==
    \E s \in Streams :
        \/ S_PrepareTable(s)
        \/ S_CreateTempTable(s)
        \/ S_IdentityInsertOn(s)
        \/ S_BulkInsert(s)
        \/ S_IdentityInsertOff(s)
        \/ S_Merge(s)
        \/ S_DropTempTable(s)
        \/ S_Commit(s)

SpecStreams == StreamsInit /\ [][StreamsNext]_vars

-----------------------------------------------------------------------------
(* The staging insert on its own: bulk_insert_records on a fresh staging
   table, for batches whose records lack properties and carry other keys *)

\* A record holds any of the properties, and may hold a key "extra" that the
\* schema does not declare.
WideRecords == UNION {RecordsOver(D) : D \in SUBSET {"id", "name", "extra"}}

WideBatches == SeqsUpTo(WideRecords, MaxBatch) \ {<<>>}

\* process_batch has created the target and the staging table and
\* bulk_insert_records has switched IDENTITY_INSERT on.
InsertInit ==
    /\ schema = StreamSchema
    /\ key_properties \in KeyChoices
    /\ records \in WideBatches
    /\ pc = "insert"
    /\ failedAt = "none"
    /\ cause = "none"
    /\ tgtExists = TRUE
    /\ tgtCols = create_empty_table(schema, key_properties)
    /\ tgtRows = EmptyBag
    /\ tmpExists = TRUE
    /\ tmpCols = SelectTop0(tgtCols)
    /\ tmpRows = EmptyBag
    /\ identity_insert = "ON"
    /\ startRows = EmptyBag
    /\ startCols = <<>>
    /\ retryOf = "none"
    /\ provisioned = FALSE
    /\ allow_column_add = TRUE
    /\ allow_column_alter = TRUE
    /\ has_properties = TRUE
    /\ NoStreams
    /\ jsonschema_type = Plain(NoTypeEntry)
    /\ sql_type = NoType

SpecInsert == InsertInit /\ [][BulkInsert]_vars

-----------------------------------------------------------------------------
(* Properties of the load *)

\* The values of the key columns of a row.
KeyOf(row) == [i \in 1..Len(key_properties) |-> row[key_properties[i]]]

BatchRows == Range(insert_records(records, schema))
BatchKeys == {KeyOf(b) : b \in BatchRows}

\* The batch holds at most one record per key value.
OneRecordPerKey ==
    \A i, j \in 1..Len(records) :
        i # j => KeyOf(insert_records(records, schema)[i])
                   # KeyOf(insert_records(records, schema)[j])

Terminal == pc \in {"Done", "Failed"}
EnteredMerging == pc = "Done" \/ (pc = "Failed" /\ failedAt \in {"MERGE", "DROP", "COMMIT"})

\* C1: with non-empty primary keys and at most one record per key in the
\* batch, a batch that reaches Done leaves the target with exactly one row per
\* key, for exactly the keys it held before plus the keys of the batch; the row
\* of a key of the batch is the batch's row, and the row of any other key is
\* the row the target held before the batch.
C1_UpsertAcrossBatches ==
    (pc = "Done" /\ key_properties # <<>> /\ OneRecordPerKey) =>
        LET T == BagToSet(tgtRows)
            S == BagToSet(startRows)
        IN /\ \A r \in T : CopiesIn(r, tgtRows) = 1
           /\ \A r1, r2 \in T : KeyOf(r1) = KeyOf(r2) => r1 = r2
           /\ {KeyOf(r) : r \in T} = {KeyOf(r) : r \in S} \cup BatchKeys
           /\ \A b \in BatchRows : b \in T
           /\ \A r \in S : KeyOf(r) \notin BatchKeys => r \in T

\* A batch that updated the row of one key and inserted the row of another.
C1_Witness ==
    /\ pc = "Done"
    /\ key_properties = <<"id">>
    /\ OneRecordPerKey
    /\ \E b \in BatchRows : \E r \in BagToSet(startRows) :
          KeyOf(b) = KeyOf(r) /\ b # r
    /\ \E b \in BatchRows : \A r \in BagToSet(startRows) : KeyOf(b) # KeyOf(r)

\* C2: a batch that reaches Done leaves its rows in the target and no staging
\* table; a first batch into an empty target leaves exactly its rows.
C2_DoneLeavesRowsAndNoStaging ==
    pc = "Done" =>
        /\ \A b \in BatchRows : b \in BagToSet(tgtRows)
        /\ ~tmpExists
        /\ startRows = EmptyBag => tgtRows = SetToBag(BatchRows)

\* A first batch of two records into an empty target has reached Done.
C2_Witness ==
    /\ pc = "Done"
    /\ startRows = EmptyBag
    /\ Cardinality(BatchRows) = 2

\* C3: when the bulk INSERT raises after SET IDENTITY_INSERT ... ON, the
\* override is switched OFF again before control leaves bulk_insert_records.
C3_IdentityInsertRestored ==
    (pc = "Failed" /\ failedAt = "INSERT") => identity_insert = "OFF"

\* C4: a fresh run on the batch whose (well-formed) MERGE raised is not stopped
\* by what the failed run left behind: it gets through Staging to the MERGE
\* again.
C4_RetryAfterMergeFailure ==
    ~(/\ MergeTextParses(schema, key_properties)
      /\ retryOf = "MERGE"
      /\ pc = "Failed"
      /\ failedAt = "SELECT_INTO"
      /\ cause = "exists")

\* C5: when the MERGE raises, the batch is Failed, the target holds the rows it
\* held when the batch started, and the staging table is still there with the
\* rows of the batch.
C5_MergeFailureKeepsTargetAndStaging ==
    (pc = "Failed" /\ failedAt = "MERGE") =>
        /\ tgtRows = startRows
        /\ tmpExists
        /\ tmpRows = SeqToBag(insert_records(records, schema))

\* The database refused a MERGE into a target that already held rows.
C5_Witness ==
    /\ pc = "Failed"
    /\ failedAt = "MERGE"
    /\ cause = "rejected"
    /\ startRows # EmptyBag

\* C6, as stated: in every terminal state of a batch that entered Merging the
\* staging table does not exist.
C6_StagingAlwaysDropped ==
    (Terminal /\ EnteredMerging) => ~tmpExists

\* C6, amended: in a terminal state of a batch that entered Merging the staging
\* table is gone exactly when its DROP TABLE was executed; it is still there
\* when the MERGE or the DROP raised.
C6_StagingDroppedUnlessMergeOrDropRaised ==
    (Terminal /\ EnteredMerging) =>
        (tmpExists <=> (pc = "Failed" /\ failedAt \in {"MERGE", "DROP"}))

\* The MERGE was applied and the DROP TABLE raised: the staging table stays.
C6_Witness ==
    /\ pc = "Failed"
    /\ failedAt = "DROP"
    /\ tmpExists
    /\ tgtRows # startRows

\* C7: with no join keys the MERGE statement is accepted: it is never refused
\* as malformed.
C7_AppendOnlyMergeAccepted ==
    ~(key_properties = <<>> /\ pc = "Failed" /\ failedAt = "MERGE" /\ cause = "syntax")

\* C8: when the staging INSERT raises, no row is staged, the batch is Failed
\* and the target holds the rows it held when the batch started; the load goes
\* past the INSERT only with every row of the batch staged.
C8_NoPartialLoad ==
    /\ (pc = "Failed" /\ failedAt = "INSERT") =>
          tmpRows = EmptyBag /\ tgtRows = startRows
    /\ pc \in {"identity_off", "merge"} =>
          tmpRows = SeqToBag(insert_records(records, schema))

\* The staging INSERT of a batch raised on a target that already held rows.
C8_Witness ==
    /\ pc = "Failed"
    /\ failedAt = "INSERT"
    /\ tgtRows # EmptyBag

IsWideText(t) == t.cls \in {"NVARCHAR", "VARCHAR"} /\ t.args = <<WideLen>>

\* C9: in a table created from the schema, a primary-key column whose mapped
\* type is wide text has the bound 255, and a column that is no key keeps its
\* mapped type.
C9_PrimaryKeyNarrowed ==
    (tgtExists /\ Len(tgtCols) = Len(schema)) =>
        \A i \in 1..Len(schema) :
            LET mapped == to_sql_type(schema[i].js)
            IN IF schema[i].name \in Range(key_properties) /\ IsWideText(mapped)
                 THEN tgtCols[i].type.args = <<KeyLen>>
                 ELSE tgtCols[i].type = mapped

-----------------------------------------------------------------------------
(* Properties of the type mapping *)

HasTag(js, t) == js.type.has /\ t \in Range(js.type.tags)

\* The table of C10: first match wins.
FirstMatch(js) ==
    IF HasTag(js, "string") THEN
        CASE js.format = "date-time" -> DATETIME
          [] js.format = "time" -> TIME
          [] js.format = "date" -> DATE
          [] OTHER -> NVARCHAR(WideLen)
    ELSE IF HasTag(js, "integer") THEN INTEGER
    ELSE IF HasTag(js, "number") THEN NUMERIC(NumericPrecision, NumericScale)
    ELSE IF HasTag(js, "boolean") THEN VARCHAR(WideLen)
    ELSE NVARCHAR(WideLen)

Mapped == sql_type # NoType

\* An anyOf alternative that is a string with a date-like format.
HasDateLikeAlternative(js) ==
    \E i \in 1..Len(js.anyOf) :
        js.anyOf[i].type.tags = <<"string">> /\ js.anyOf[i].format \in DateLike

\* C10, as stated: every property schema with a single-valued or list-valued
\* type tag maps by the first-match table, and ["string","null"] maps as
\* "string" does.
C10_FirstMatchWins ==
    (Mapped /\ jsonschema_type.type.has) =>
        /\ sql_type = FirstMatch(jsonschema_type)
        /\ jsonschema_type.type = ListType(<<"string", "null">>) =>
              sql_type = to_sql_type([jsonschema_type EXCEPT !.type = SingleType("string")])

\* C10, amended: the same, for the schemas whose anyOf list holds no string
\* alternative with a date-like format.
C10_FirstMatchWinsWithoutDateLikeAlternative ==
    (Mapped /\ jsonschema_type.type.has /\ ~HasDateLikeAlternative(jsonschema_type)) =>
        /\ sql_type = FirstMatch(jsonschema_type)
        /\ jsonschema_type.type = ListType(<<"string", "null">>) =>
              sql_type = to_sql_type([jsonschema_type EXCEPT !.type = SingleType("string")])

\* ["integer","null"] with a maxLength and a date-time format was mapped.
C10_Witness ==
    /\ Mapped
    /\ jsonschema_type.type = ListType(<<"null", "integer">>)
    /\ jsonschema_type.format = "date-time"
    /\ jsonschema_type.maxLength # 0
    /\ sql_type = INTEGER

\* An anyOf alternative whose own type tag is t.
HasAlternative(js, t) ==
    \E i \in 1..Len(js.anyOf) : js.anyOf[i].type = SingleType(t)

\* C11: a property schema with no top-level type tag whose anyOf list holds
\* an integer alternative (and no string alternative, which would match
\* first) maps to INTEGER, as the plain tag "integer" does, and
\* _jsonschema_type_check answers true for "integer".
C11_AnyOfAlternativeMatched ==
    (/\ Mapped
     /\ ~jsonschema_type.type.has
     /\ HasAlternative(jsonschema_type, "integer")
     /\ ~HasAlternative(jsonschema_type, "string")) =>
        /\ _jsonschema_type_check(jsonschema_type, {"integer"})
        /\ sql_type = to_sql_type(Plain(SingleType("integer")))

-----------------------------------------------------------------------------
(* Properties of provisioning *)

IsText(t) == t.cls \in {"NVARCHAR", "VARCHAR"}

\* Type a holds every value type b holds: b itself, or a text type at least
\* as long as b.
Absorbs(a, b) ==
    \/ a = b
    \/ IsText(a) /\ ~IsText(b)
    \/ IsText(a) /\ IsText(b) /\ a.args[1] >= b.args[1]

\* The columns of the schema named as the live column j is.
PropertiesOf(j) == {i \in 1..Len(schema) : schema[i].name = startCols[j].name}

\* C12: column type reconciliation never narrows.  For every column the table
\* had when the run started and every property of that name, the column now
\* holds its old type or the desired type, and whichever it holds absorbs
\* the old type; it is left alone when the old type absorbs the desired one.
\* A live integer column with desired text is text once provisioning has
\* returned; a live text column with desired integer stays as it was.
C12_NeverNarrows ==
    \A j \in 1..Len(startCols) :
        /\ j <= Len(tgtCols)
        /\ tgtCols[j].name = startCols[j].name
        /\ Absorbs(tgtCols[j].type, startCols[j].type)
        /\ \A i \in PropertiesOf(j) :
              LET old == startCols[j].type
                  new == tgtCols[j].type
                  desired == to_sql_type(schema[i].js)
              IN /\ new \in {old, desired}
                 /\ Absorbs(old, desired) => new = old
                 /\ (old = INTEGER /\ IsText(desired) /\ ProvisioningReturned)
                       => new = desired
                 /\ (IsText(old) /\ desired = INTEGER) => new = old

\* One run widened a live integer "id" to text and left a live text "name",
\* for which the schema asks an integer, alone.
C12_Witness ==
    /\ ProvisioningReturned
    /\ Len(startCols) = 2
    /\ startCols[1].type = INTEGER /\ tgtCols[1].type = NVARCHAR(WideLen)
    /\ IsText(startCols[2].type) /\ tgtCols[2].type = startCols[2].type
    /\ Len(schema) = 2 /\ to_sql_type(schema[2].js) = INTEGER

\* A DDL statement on the target table was sent in the current run: the
\* table is not as the run found it, or one of the statements was rejected.
DDLStatements == {"CREATE_TABLE", "ALTER_ADD", "ALTER_COLUMN"}
DDLIssued ==
    \/ tgtCols # startCols
    \/ pc = "Failed" /\ failedAt \in DDLStatements /\ cause = "rejected"

\* C13: provisioning is idempotent.  In a run that starts after prepare_table
\* has returned once for the same table, schema and primary keys, no CREATE
\* TABLE, ALTER TABLE ADD or ALTER TABLE ALTER COLUMN is sent.
C13_SecondProvisioningIssuesNoDDL ==
    provisioned => (tgtExists /\ ~DDLIssued)

\* The table was there when the run started.
StartedOnTable == startCols # <<>>

\* A property of the schema that the table the run started on lacks.
AbsentProperty(i) == \A j \in 1..Len(startCols) : startCols[j].name # schema[i].name

\* A column the run started on for which the schema asks a text type that
\* the column's type does not absorb.
MustWiden(j) ==
    \E i \in PropertiesOf(j) :
        LET desired == to_sql_type(schema[i].js)
        IN IsText(desired) /\ ~Absorbs(startCols[j].type, desired)

\* C14: policy gating of DDL.  With allow_column_add false no column is
\* added, a run on a table that lacks a property never gets past
\* provisioning, and a failure at ALTER TABLE ADD is the unsupported-operation
\* error.  With allow_column_alter false no column changes its type, and a
\* failure at ALTER COLUMN is the unsupported-operation error and only
\* happens on a table with a column that must be widened; so when no type
\* change is needed, disabling the alter raises nothing.
C14_PolicyGatesDDL ==
    /\ (~allow_column_add /\ StartedOnTable) =>
          /\ Len(tgtCols) = Len(startCols)
          /\ (pc = "Failed" /\ failedAt = "ALTER_ADD") =>
                (cause = "policy" /\ ExceptionRaised = "NotImplementedError")
          /\ (\E i \in 1..Len(schema) : AbsentProperty(i)) => ~ProvisioningReturned
    /\ (~allow_column_alter /\ StartedOnTable) =>
          /\ \A j \in 1..Len(startCols) : tgtCols[j].type = startCols[j].type
          /\ (pc = "Failed" /\ failedAt = "ALTER_COLUMN") =>
                /\ cause = "policy" /\ ExceptionRaised = "NotImplementedError"
                /\ \E j \in 1..Len(startCols) : MustWiden(j)
          /\ (\E j \in 1..Len(startCols) : MustWiden(j)) => ~ProvisioningReturned

\* Altering is disabled and the run failed on a live integer "id" for which
\* the schema asks text; the table is as the run found it.
C14_Witness ==
    /\ ~allow_column_alter
    /\ pc = "Failed" /\ failedAt = "ALTER_COLUMN" /\ cause = "policy"
    /\ startCols # <<>> /\ startCols[1].type = INTEGER
    /\ to_sql_type(schema[1].js) = NVARCHAR(WideLen)
    /\ tgtCols = startCols

-----------------------------------------------------------------------------
(* Properties of the errors *)

\* The statements process_batch sends.
SQLStatements ==
    DDLStatements \cup {"SELECT_INTO", "IDENTITY_ON", "INSERT", "IDENTITY_OFF",
                        "MERGE", "DROP", "COMMIT"}

\* C15: every failure of a SQL statement of the pipeline reaches the caller
\* wrapped in the pipeline's own error (the RuntimeError that names the
\* operation and the table); the driver's error never leaves process_batch
\* as it is.
C15_EveryStatementFailureWrapped ==
    (pc = "Failed" /\ failedAt \in SQLStatements /\ cause # "policy") =>
        ExceptionRaised = "RuntimeError"

-----------------------------------------------------------------------------
(* Properties of two streams *)

StreamsEnded == \A s \in Streams : spc[s] \in {"Done", "Failed"}

\* What the batch of sink s leaves in its table when the sink runs alone.
LoadedAlone(s) == SeqToBag(insert_records(batchOf[s], schema))

\* C16: distinct streams are independent.  Whatever the two distinct table
\* names are and however the statements of the two runs interleave, once
\* both runs have ended each run is Done and each target table holds what
\* its own batch loads when run alone.
C16_DistinctStreamsIndependent ==
    StreamsEnded =>
        \A s \in Streams :
            /\ spc[s] = "Done"
            /\ tables[full_table_name[s]].exists
            /\ tables[full_table_name[s]].rows = LoadedAlone(s)

-----------------------------------------------------------------------------
(* Properties of the order of the steps *)

\* Every property of the schema is a column of cols.
Covers(cols) ==
    \A i \in 1..Len(schema) : \E j \in 1..Len(cols) : cols[j].name = schema[i].name

\* Every property of the schema is a column of both tables, of one type.
SameColumns(a, b) ==
    \A i \in 1..Len(schema) :
        \E j \in 1..Len(a) : \E k \in 1..Len(b) :
            /\ a[j].name = schema[i].name
            /\ b[k].name = schema[i].name
            /\ a[j].type = b[k].type

\* C17: provisioning precedes all data movement.  Past prepare_table the
\* target table exists and has a column for every property of the batch's
\* schema; from the creation of the staging table of this run to the merge,
\* every property is a column of the staging table and of the target table
\* with the same name and type in both.
C17_ProvisionedBeforeDataMovement ==
    /\ pc \in {"create_temp", "identity_on", "insert", "identity_off", "merge",
                "drop", "commit", "Done"}
          => (tgtExists /\ Covers(tgtCols))
    /\ pc \in {"identity_on", "insert", "identity_off", "merge"}
          => (tmpExists /\ SameColumns(tmpCols, tgtCols))

\* The merge is about to run on a table to which this run added the column
\* "name" and whose "id" it widened.
C17_Witness ==
    /\ pc = "merge"
    /\ Len(startCols) = 1 /\ Len(tgtCols) = 2
    /\ tgtCols[1].type # startCols[1].type
    /\ tmpRows # EmptyBag

Rank(phase) ==
    CASE phase = "Idle" -> 0
      [] phase = "Provisioning" -> 1
      [] phase = "Staging" -> 2
      [] phase = "Merging" -> 3
      [] phase \in {"Done", "Failed"} -> 4

\* No statement takes effect in the step.
NoStatement ==
    UNCHANGED <<tgtExists, tgtCols, tgtRows, tmpExists, tmpCols, tmpRows,
                identity_insert>>

\* C18: the state machine of a batch only moves forward.  A step of a run
\* stays in its phase, enters the next one of Idle, Provisioning, Staging,
\* Merging, Done, or ends in Failed.  From Done or Failed the only step is
\* the start of another run (the sink waits for its next batch, or the
\* rejected batch is handed to a new call), and it sends no statement.
C18_OnlyForward ==
    [][IF pc \in {"Done", "Failed"}
         THEN NoStatement /\ pc' \in {"Idle", "prepare_table"}
         ELSE \/ Phase' = Phase
              \/ Rank(Phase') = Rank(Phase) + 1
              \/ Phase' = "Failed"]_vars

\* A run went through every phase and ended Done with its rows loaded.
C18_Witness ==
    /\ pc = "Done"
    /\ tgtRows # startRows
    /\ startRows # EmptyBag

-----------------------------------------------------------------------------
(* Properties of the staging insert *)

\* The row the claim describes for a record: one entry per schema property,
\* the record's value or NULL.
RowOf(record) ==
    [n \in PropertyNames(schema) |->
        IF n \in DOMAIN record THEN record[n] ELSE NULL]

-----------------------------------------------------------------------------
(* Properties of a schema without a property map *)

\* C20: a schema with no declared property map is rejected with the schema
\* error (the RuntimeError of create_empty_table) before any table is created
\* or altered and before any row is staged or merged, whether the target
\* table exists or not.
C20_NoPropertyMapRejected ==
    (~has_properties /\ pc # "prepare_table") =>
        /\ pc = "Failed"
        /\ ExceptionRaised = "RuntimeError"
        /\ tgtExists = StartedOnTable
        /\ tgtCols = startCols
        /\ ~tmpExists
        /\ tgtRows = EmptyBag /\ tmpRows = EmptyBag

-----------------------------------------------------------------------------
(* Properties of the commit *)

\* The step ends with COMMIT having been sent: it returned, or it raised.
CommitSent == pc' = "Done" \/ (pc' = "Failed" /\ failedAt' = "COMMIT")

\* C21: commit ordering.  DROP TABLE is reached only by the step in which the
\* MERGE took effect, COMMIT only by the step in which DROP TABLE removed the
\* staging table, and COMMIT is sent only from there.  A run that fails at
\* MERGE or DROP sends nothing more: its next step is the start of another
\* call.  When DROP TABLE raises, the merged rows stay in the target and the
\* staging table stays, with no COMMIT sent.
C21_CommitAfterMergeAndDrop ==
    [][/\ (pc' = "drop" /\ pc # "drop") =>
             /\ pc = "merge"
             /\ tgtRows' = MergedRows(tgtRows, tmpRows, schema, key_properties)
       /\ (pc' = "commit" /\ pc # "commit") =>
             (pc = "drop" /\ tmpExists /\ ~tmpExists')
       /\ CommitSent => pc = "commit"
       /\ (pc = "Failed" /\ failedAt \in {"MERGE", "DROP"}) =>
             (pc' = "prepare_table" /\ NoStatement)
       /\ pc = "drop" =>
             /\ tgtRows = MergedRows(startRows, tmpRows, schema, key_properties)
             /\ pc' = "Failed" =>
                   (failedAt' = "DROP" /\ tgtRows' = tgtRows /\ tmpExists')]_vars

\* DROP TABLE raised after a MERGE that changed the target: the merged rows
\* are in the target, the staging table is still there.
C21_Witness ==
    /\ pc = "Failed"
    /\ failedAt = "DROP"
    /\ tgtRows # startRows
    /\ tgtRows = MergedRows(startRows, tmpRows, schema, key_properties)
    /\ tmpExists


=============================================================================
